---- MODULE Spec2Model ----
(***************************************************************************)
(* A model of jasmin_ldap_django: the LDAP model base class                *)
(* (models.py), the database wrapper (backend/base.py) and the query       *)
(* cross-compiler (backend/compiler.py).                                   *)
(*                                                                         *)
(* Every operation is one atomic action.  What an operation does to the    *)
(* directory is recorded in `trace`, the sequence of events of the last    *)
(* operation: connections opened and closed, directory calls issued and    *)
(* signals sent, in program order.  `result` is what the operation gave    *)
(* back to its caller: the exception it raised (exc) or the value it       *)
(* returned (ret).  `op` names the operation and keeps the entity state it *)
(* started from.                                                           *)
(***************************************************************************)
EXTENDS Integers, Sequences, FiniteSets, TLC

VARIABLES
    adding,        \* LDAPModel._state.adding
    cn,            \* value of the field mapped to the cn column
    raw_password,  \* LDAPModel._raw_password, None while the attribute is absent
    storedDn,      \* history: DN of the directory entry the entity was loaded from or last written to
    query,         \* the query description handed to the compiler, with the directory's answer
    plan,          \* the jasmin_ldap query the last execute_sql built
    op,            \* the last operation and the entity state before it
    trace,         \* events of the last operation, in program order
    result         \* [exc, ret] of the last operation

entityVars == <<adding, cn, raw_password, storedDn>>
callVars == <<op, trace, result>>
queryVars == <<query, plan>>

----------------------------------------------------------------------------
(* Values *)

\* Python's None, as the caller sees it
None == "None"
PyTrue == "True"
PyFalse == "False"
PyBool(b) == IF b THEN PyTrue ELSE PyFalse

\* LDAPModel.base_dn of the concrete model
base_dn == "ou=people"

\* values the cn field takes (full_clean rejects a blank primary key)
CnValues == {"alice", "bob"}

\* passwords a caller hands to set_password / check_password
Passwords == {"", "pw1", "pw2"}

\* Python truthiness of an optional string: None and "" are falsy
Truthy(v) == v # None /\ v # ""

\* No exception
NoExc == "none"

\* what an operation returns: None, a bool, or a list tagged by the return
\* statement that built it
RetNone == [kind |-> "None"]
RetBool(b) == [kind |-> "bool", value |-> b]
RetList(values) == [kind |-> "list", value |-> values]

----------------------------------------------------------------------------
(* models.py: LDAPModel._build_dn *)

BuildDn(value) ==
    IF Truthy(value) THEN "cn=" \o value \o "," \o base_dn ELSE None

----------------------------------------------------------------------------
(* A run of a handler: the events so far and the exception that ended it. *)
(* A statement appends its events and may raise; once an exception is     *)
(* raised the remaining statements are skipped.                           *)

Start == [trace |-> <<>>, exc |-> NoExc]

Then(run, events, exc) ==
    IF run.exc # NoExc THEN run
    ELSE [trace |-> run.trace \o events, exc |-> exc]

----------------------------------------------------------------------------
(* backend/base.py: create_entry, update_entry, set_entry_password,       *)
(* delete_entry.  Each is `with self._connection(MODE_READWRITE) as conn: *)
(* return conn.<call>(...)`.  The outcome of the directory is an input:   *)
(*   "ok"            the connection opens and the call returns            *)
(*   "connect_error" Connection.create raises, no connection exists       *)
(*   "call_error"    the call raises inside the with block                *)

Outcomes == {"ok", "connect_error", "call_error"}

OutcomeExc(outcome) ==
    IF outcome = "ok" THEN NoExc ELSE "ConnectionError"

\* a with block that does not close when its body raises
WithConnectionLeaky(mode, body, outcome) ==
    CASE outcome = "connect_error" -> <<>>
      [] outcome = "call_error" -> << <<"open", mode>> >> \o body
      [] OTHER -> << <<"open", mode>> >> \o body \o << <<"close">> >>

\* `with self._connection(mode) as conn: <body>`; body: the events of the block
WithConnection(mode, body, outcome) ==
    CASE outcome = "connect_error" -> <<>>
      [] OTHER -> << <<"open", mode>> >> \o body \o << <<"close">> >>

(* backend/base.py: create_query, the context manager around the block *)
create_query(body, outcome) ==
    WithConnection("ro", body, outcome)

create_entry(dn, outcome) ==
    WithConnection("rw", << <<"create_entry", dn>> >>, outcome)

update_entry(dn, outcome) ==
    WithConnection("rw", << <<"update_entry", dn>> >>, outcome)

set_entry_password(dn, password, outcome) ==
    WithConnection("rw", << <<"set_entry_password", dn, password>> >>, outcome)

delete_entry(dn, outcome) ==
    WithConnection("rw", << <<"delete_entry", dn>> >>, outcome)

----------------------------------------------------------------------------
(* backend/base.py: check_entry_password.                                 *)
(*   "ok"          the bind succeeds, the connection is closed at once    *)
(*   "auth_error"  Connection.create raises AuthenticationError           *)
(*   "connect_error" Connection.create raises another error               *)

BindOutcomes == {"ok", "auth_error", "connect_error"}

BindAnswer(outcome) ==
    CASE outcome = "ok" -> "bound"
      [] outcome = "auth_error" -> "AuthenticationError"
      [] OTHER -> "ConnectionError"

\* catches every failure of the bind, not only AuthenticationError
check_entry_password_catch_all(dn, password, outcome) ==
    LET bind == <<"bind", dn, password, BindAnswer(outcome)>>
    IN  IF outcome = "ok"
        THEN [trace |-> << bind, <<"open", "bind">>, <<"close">> >>,
              exc |-> NoExc, ret |-> RetBool(TRUE)]
        ELSE [trace |-> << bind >>, exc |-> NoExc, ret |-> RetBool(FALSE)]

check_entry_password(dn, password, outcome) ==
    LET bind == <<"bind", dn, password, BindAnswer(outcome)>>
    IN  CASE outcome = "ok" ->
               [trace |-> << bind, <<"open", "bind">>, <<"close">> >>,
                exc |-> NoExc, ret |-> RetBool(TRUE)]
          [] outcome = "auth_error" ->
               [trace |-> << bind >>, exc |-> NoExc, ret |-> RetBool(FALSE)]
          [] OTHER ->
               [trace |-> << bind >>, exc |-> "ConnectionError", ret |-> RetNone]

----------------------------------------------------------------------------
(* The operation record: its name, its argument and the entity before it, *)
(* and whether the operation before it was a save that returned          *)

OpRecord(name, arg) ==
    [name |-> name, arg |-> arg, adding |-> adding, cn |-> cn,
     raw_password |-> raw_password, storedDn |-> storedDn,
     afterSave |-> op.name = "save" /\ result.exc = NoExc]

----------------------------------------------------------------------------
(* models.py: LDAPModel.save *)

\* updates whether or not the entity is being added
MainWriteUpdateOnly(run, isAdding, dn, main) ==
    Then(run, update_entry(dn, main), OutcomeExc(main))

\* goes on after a create or update that raised
MainWriteSwallowing(run, isAdding, dn, main) ==
    IF isAdding
    THEN Then(run, create_entry(dn, main), NoExc)
    ELSE Then(run, update_entry(dn, main), NoExc)

\* `if self._state.adding: create_entry ... else: update_entry ...`
MainWrite(run, isAdding, dn, main) ==
    IF isAdding
    THEN Then(run, create_entry(dn, main), OutcomeExc(main))
    ELSE Then(run, update_entry(dn, main), OutcomeExc(main))

\* `if raw_password is not None` instead of `if raw_password`
PasswordUpdateNotNone(run, dn, password, pw) ==
    IF password # None
    THEN Then(run, set_entry_password(dn, password, pw), OutcomeExc(pw))
    ELSE run

\* `raw_password = getattr(self, '_raw_password', None); if raw_password: ...`
PasswordUpdate(run, dn, password, pw) ==
    IF Truthy(password)
    THEN Then(run, set_entry_password(dn, password, pw), OutcomeExc(pw))
    ELSE run

\* valid: full_clean passes; main: outcome of create_entry/update_entry;
\* pw: outcome of set_entry_password (used only when a password is staged).
\* The operation record of a save keeps the three as its argument.
SaveRun(valid, main, pw) ==
    LET dn == BuildDn(cn)
        created == adding
        r1 == Then(Start, <<>>, IF valid THEN NoExc ELSE "ValidationError")
        r2 == Then(r1, << <<"signal", "pre_save">> >>, NoExc)
        r3 == MainWrite(r2, adding, dn, main)
        r4 == PasswordUpdate(r3, dn, raw_password, pw)
        r5 == Then(r4, << <<"signal", "post_save", PyBool(created)>> >>, NoExc)
    IN  r5

\* forgets the staged password once it has written it
SaveForgetting(valid, main, pw) ==
    LET run == SaveRun(valid, main, pw)
    IN  /\ (~Truthy(raw_password) => pw = "ok")
        /\ (~valid => main = "ok" /\ pw = "ok")
        /\ (main # "ok" => pw = "ok")
        /\ op' = OpRecord("save", [valid |-> valid, main |-> main, pw |-> pw])
        /\ trace' = run.trace
        /\ result' = [exc |-> run.exc, ret |-> RetNone]
        /\ adding' = IF run.exc = NoExc THEN FALSE ELSE adding
        /\ storedDn' = IF valid /\ main = "ok" THEN BuildDn(cn) ELSE storedDn
        /\ raw_password' = IF run.exc = NoExc THEN None ELSE raw_password
        /\ UNCHANGED <<cn, queryVars>>

Save(valid, main, pw) ==
    LET run == SaveRun(valid, main, pw)
    IN  /\ (~Truthy(raw_password) => pw = "ok")
        /\ (~valid => main = "ok" /\ pw = "ok")
        /\ (main # "ok" => pw = "ok")
        /\ op' = OpRecord("save", [valid |-> valid, main |-> main, pw |-> pw])
        /\ trace' = run.trace
        /\ result' = [exc |-> run.exc, ret |-> RetNone]
        /\ adding' = IF run.exc = NoExc THEN FALSE ELSE adding
        /\ storedDn' = IF valid /\ main = "ok" THEN BuildDn(cn) ELSE storedDn
        /\ UNCHANGED <<cn, raw_password, queryVars>>

----------------------------------------------------------------------------
(* models.py: LDAPModel.delete *)

DeleteRun(isAdding, cnValue, outcome) ==
    IF ~isAdding
    THEN LET r1 == Then(Start, << <<"signal", "pre_delete">> >>, NoExc)
             r2 == Then(r1, delete_entry(BuildDn(cnValue), outcome), OutcomeExc(outcome))
             r3 == Then(r2, << <<"signal", "post_delete">> >>, NoExc)
         IN  r3
    ELSE Start

Delete(outcome) ==
    LET run == DeleteRun(adding, cn, outcome)
    IN  /\ (adding => outcome = "ok")
        /\ op' = OpRecord("delete", None)
        /\ trace' = run.trace
        /\ result' = [exc |-> run.exc, ret |-> RetNone]
        /\ UNCHANGED <<entityVars, queryVars>>

----------------------------------------------------------------------------
(* models.py: LDAPModel.check_password *)

CheckPasswordRun(candidate, outcome) ==
    IF adding
    THEN [trace |-> <<>>, exc |-> NoExc, ret |-> RetBool(FALSE)]
    ELSE check_entry_password(BuildDn(cn), candidate, outcome)

CheckPassword(candidate, outcome) ==
    LET run == CheckPasswordRun(candidate, outcome)
    IN  /\ (adding => outcome = "ok")
        /\ op' = OpRecord("check_password", candidate)
        /\ trace' = run.trace
        /\ result' = [exc |-> run.exc, ret |-> run.ret]
        /\ UNCHANGED <<entityVars, queryVars>>

----------------------------------------------------------------------------
(* models.py: LDAPModel.set_password *)

SetPassword(password) ==
    /\ raw_password' = password
    /\ op' = OpRecord("set_password", password)
    /\ trace' = <<>>
    /\ result' = [exc |-> NoExc, ret |-> RetNone]
    /\ UNCHANGED <<adding, cn, storedDn, queryVars>>

----------------------------------------------------------------------------
(* The caller assigns the cn field of the instance between two operations *)

SetCn(value) ==
    /\ value # cn
    /\ cn' = value
    /\ op' = OpRecord("set_cn", value)
    /\ trace' = <<>>
    /\ result' = [exc |-> NoExc, ret |-> RetNone]
    /\ UNCHANGED <<adding, raw_password, storedDn, queryVars>>

----------------------------------------------------------------------------------------------------------------------------------------
(* Django's where tree, as _compile inspects it:                          *)
(*   Lookup     lhs (a Col with its column, or another expression),       *)
(*              lookup_name, rhs                                          *)
(*   WhereNode  children, connector, negated                              *)
(*   any other node                                                       *)

Col(name, column) == [type |-> "Col", name |-> name, column |-> column]
Ref(refs) == [type |-> "Ref", refs |-> refs]
Lookup(lhs, lookup_name, rhs) ==
    [type |-> "Lookup", lhs |-> lhs, lookup_name |-> lookup_name, rhs |-> rhs]
WhereNode(children, connector, negated) ==
    [type |-> "WhereNode", children |-> children, connector |-> connector,
     negated |-> negated]
NothingNode == [type |-> "NothingNode"]

\* django.db.models.sql.where
AND == "AND"
OR == "OR"

(* jasmin_ldap.filters *)
Expression(column, lookup_name, rhs) ==
    [type |-> "Expression", column |-> column, lookup_name |-> lookup_name,
     value |-> rhs]
AndNode(children) == [type |-> "AndNode", children |-> children]
OrNode(children) == [type |-> "OrNode", children |-> children]
NotNode(child) == [type |-> "NotNode", child |-> child]

Returns(value) == [exc |-> NoExc, ret |-> value]
Raises(exc) == [exc |-> exc, ret |-> RetNone]

\* the first element of a sequence of outcomes that raised, 0 if none
FirstRaise(outs) ==
    IF \E i \in 1..Len(outs) : outs[i].exc # NoExc
    THEN CHOOSE i \in 1..Len(outs) :
            /\ outs[i].exc # NoExc
            /\ \A j \in 1..(i-1) : outs[j].exc = NoExc
    ELSE 0

\* drops the negation of a node that is itself negated (NOT NOT x = x)
NegateSimplifying(negated, node) ==
    IF ~negated THEN node
    ELSE IF node.type = "NotNode" THEN node.child ELSE NotNode(node)

\* `if expr.negated: node = NotNode(node)`
Negate(negated, node) == IF negated THEN NotNode(node) ELSE node

(* backend/compiler.py: SQLCompiler._compile *)
RECURSIVE _compile(_)
_compile(expr) ==
    IF expr.type = "Lookup"
    THEN IF expr.lhs.type = "Col"
         THEN Returns(Expression(expr.lhs.column, expr.lookup_name, expr.rhs))
         ELSE Raises("TypeError: Filtering on annotations is not supported")
    ELSE IF expr.type = "WhereNode"
    THEN LET children == expr.children
             outs == [i \in 1..Len(children) |-> _compile(children[i])]
             bad == FirstRaise(outs)
             nodes == [i \in 1..Len(children) |-> outs[i].ret]
             out == IF Len(children) = 1 THEN outs[1]
                    ELSE IF expr.connector \notin {AND, OR}
                    THEN Raises("TypeError: Unsupported connector")
                    ELSE IF bad # 0 THEN outs[bad]
                    ELSE IF expr.connector = AND THEN Returns(AndNode(nodes))
                    ELSE Returns(OrNode(nodes))
         IN  IF out.exc # NoExc THEN out
             ELSE Returns(Negate(expr.negated, out.ret))
    ELSE Raises("TypeError: Unsupported node")

----------------------------------------------------------------------------
(* The where trees the compiler is given: every tree of at most MaxNodes  *)
(* nodes over these leaves and connectors.                                *)

MaxNodes == 4

Leaves ==
    { Lookup(Col("username", "uid"), "exact", "alice"),
      Lookup(Col("email", "mail"), "icontains", "example"),
      Lookup(Ref("n_groups"), "exact", "2"),
      NothingNode }

Connectors == {AND, OR, "XOR"}

RECURSIVE TreesOfSize(_), ForestsOfSize(_)
TreesOfSize(n) ==
    IF n = 1 THEN Leaves
    ELSE { WhereNode(f, c, neg) :
             f \in ForestsOfSize(n - 1), c \in Connectors, neg \in BOOLEAN }
ForestsOfSize(k) ==
    IF k = 0 THEN { <<>> }
    ELSE UNION { { <<t>> \o f : t \in TreesOfSize(i), f \in ForestsOfSize(k - i) } :
                 i \in 1..k }

TreesUpTo(n) == UNION { TreesOfSize(k) : k \in 1..n }

----------------------------------------------------------------------------
(* The query description, as execute_sql reads it from Django:            *)
(*   select         self.select + extra_select: [expr, alias] in order    *)
(*   where          self.query.where, without children when unfiltered    *)
(*   distinct       self.query.distinct                                   *)
(*   order_by       pre_sql_setup()'s order_by: [expression, descending]  *)
(*   low_mark, high_mark   self.query.low_mark / high_mark                *)
(*   search_classes (None or a list), object_classes   of the model       *)
(* and what the directory holds for it:                                   *)
(*   entries        the entries the built search yields, in its order     *)
(*   agg_absent     whether the dict of aggregate() lacks the computed    *)
(*                  (non-count) keys                                      *)

Star == [type |-> "Star"]
Value == [type |-> "Value"]
Aggregate(class, source_expressions, is_summary) ==
    [type |-> "Aggregate", class |-> class,
     source_expressions |-> source_expressions, is_summary |-> is_summary]
Selected(expr, alias) == [expr |-> expr, alias |-> alias]
OrderBy(expression, descending) ==
    [expression |-> expression, descending |-> descending]

\* django.db.models.sql.compiler result types
SINGLE == "single"
MULTI == "multi"
CURSOR == "cursor"

\* self.query.high_mark is None: no high bound
NoneMark == -1

\* the classes jasmin_ldap.aggregations and jasmin_ldap.annotations define
ldap_aggr == {"Count", "Max"}
ldap_annot == {"Count"}

\* str.lower() of the aggregate class names
Lower(class) ==
    CASE class = "Count" -> "count"
      [] class = "Max" -> "max"
      [] class = "StdDev" -> "stddev"

\* an OrderedDict: <<key, value>> pairs in the order the keys were first set
Put(od, key, value) ==
    IF \E i \in 1..Len(od) : od[i][1] = key
    THEN [i \in 1..Len(od) |-> IF od[i][1] = key THEN <<key, value>> ELSE od[i]]
    ELSE Append(od, <<key, value>>)
Keys(od) == [i \in 1..Len(od) |-> od[i][1]]

\* a where tree without children: the query has no filter
NoWhere == WhereNode(<<>>, AND, FALSE)

NoQuery == [where |-> NoWhere]
NoPlan == [kind |-> "no query built"]

Gathered ==
    [q_annots |-> <<>>, q_aggregates |-> <<>>, fields |-> <<>>, exc |-> NoExc]

Unsupported == "NotImplementedError: Unsupported usage"

(* backend/compiler.py: execute_sql, one turn of the loop over the select *)
GatherOne(acc, item) ==
    LET expr == item.expr
        alias == item.alias
    IN  IF expr.type = "Col"
        THEN [acc EXCEPT !.fields = Append(@, expr.column)]
        ELSE IF expr.type # "Aggregate" \/ Len(expr.source_expressions) # 1
        THEN [acc EXCEPT !.exc = Unsupported]
        ELSE LET se == expr.source_expressions[1]
             IN  IF expr.class = "Count" /\ se.type = "Star"
                 THEN [acc EXCEPT !.q_aggregates = Put(@, alias, "Count()")]
                 ELSE IF se.type \notin {"Col", "Ref"}
                 THEN [acc EXCEPT !.exc = Unsupported]
                 ELSE IF se.type = "Ref" /\ ~Truthy(alias)
                 THEN \* a Ref has no target: `se.target.name` raises
                      [acc EXCEPT !.exc = "AttributeError"]
                 ELSE LET name == IF Truthy(alias) THEN alias
                                  ELSE se.name \o "__" \o Lower(expr.class)
                          target == IF se.type = "Col" THEN se.column ELSE se.refs
                          made == expr.class \o "(" \o target \o ")"
                      IN  IF expr.is_summary
                          THEN IF expr.class \in ldap_aggr
                               THEN [acc EXCEPT !.q_aggregates = Put(@, name, made)]
                               ELSE [acc EXCEPT !.exc = Unsupported]
                          ELSE IF expr.class \in ldap_annot
                               THEN [acc EXCEPT !.q_annots = Put(@, name, made),
                                                !.fields = Append(@, name)]
                               ELSE [acc EXCEPT !.exc = Unsupported]

(* backend/compiler.py: execute_sql, the loop over self.select + extra_select *)
RECURSIVE Gather(_, _)
Gather(acc, select) ==
    IF select = <<>> \/ acc.exc # NoExc THEN acc
    ELSE Gather(GatherOne(acc, Head(select)), Tail(select))

(* backend/compiler.py: execute_sql, the orderings *)
RECURSIVE Orderings(_)
Orderings(order_by) ==
    IF order_by = <<>> THEN Returns(<<>>)
    ELSE LET o == Head(order_by)
             rest == Orderings(Tail(order_by))
         IN  IF o.expression.type \notin {"Col", "Ref"}
             THEN Raises("NotImplementedError: Unsupported expression")
             ELSE IF rest.exc # NoExc THEN rest
             ELSE LET attribute == IF o.expression.type = "Col"
                                   THEN o.expression.column ELSE o.expression.refs
                  IN  Returns(<< IF o.descending THEN "-" \o attribute ELSE attribute >>
                              \o rest.ret)

\* `if self.query.low_mark or self.query.high_mark`
HasLimits(q) ==
    q.low_mark # 0 \/ (q.high_mark # NoneMark /\ q.high_mark # 0)

NoSlice == <<>>

(* backend/compiler.py: execute_sql, the jasmin_ldap query built inside   *)
(* the with block, up to the limits.  exc is the exception that stopped   *)
(* the building.                                                          *)
BuildQuery(q, gathered) ==
    LET search_classes == IF q.search_classes = RetNone THEN q.object_classes
                          ELSE q.search_classes.value
        class_filters == [i \in 1..Len(search_classes) |->
                            [type |-> "objectClass", value |-> search_classes[i]]]
        \* `if self.query.where`: a node is true when it has children
        filtered == q.where.children # <<>>
        compiled == IF filtered THEN _compile(q.where) ELSE Returns(NoWhere)
        orderings == IF compiled.exc # NoExc THEN Returns(<<>>)
                     ELSE Orderings(q.order_by)
    IN  [annotate |-> gathered.q_annots,
         filter |-> IF filtered /\ compiled.exc = NoExc
                    THEN Append(class_filters, compiled.ret) ELSE class_filters,
         select |-> gathered.fields,
         distinct |-> q.distinct,
         order_by |-> orderings.ret,
         slice |-> IF HasLimits(q) THEN <<q.low_mark, q.high_mark>> ELSE NoSlice,
         exc |-> IF compiled.exc # NoExc THEN compiled.exc ELSE orderings.exc]

\* Python's seq[low:high], high = NoneMark standing for None
PySlice(seq, low, high) ==
    LET last == IF high = NoneMark \/ high > Len(seq) THEN Len(seq) ELSE high
    IN  SubSeq(seq, low + 1, last)

\* the entries the built query yields
Fetch(q, built) ==
    IF built.slice = NoSlice THEN q.entries
    ELSE PySlice(q.entries, built.slice[1], built.slice[2])

\* entry.get(f, [])
Get(entry, f) == IF f \in DOMAIN entry THEN entry[f] ELSE <<>>

\* [r.get(f, []) for f in fields]
Row(entry, fields) == [i \in 1..Len(fields) |-> Get(entry, fields[i])]

\* query.aggregate(**q_aggregates): the dict jasmin_ldap gives back, and
\* result.get(n) on it
AggregateGet(q, q_aggregates, i, entries) ==
    IF q_aggregates[i][2] = "Count()" THEN "Count()=" \o ToString(Len(entries))
    ELSE IF q.agg_absent THEN None
    ELSE q_aggregates[i][2] \o "/" \o ToString(Len(entries))

\* the values execute_sql returns
RetRow(values) == [kind |-> "row", value |-> values]
RetAggregates(values) == [kind |-> "aggregates", value |-> values]
RetChunks(chunks) == [kind |-> "chunks", value |-> chunks]

\* asks for the entry first and uses the aggregates only when there is none
ShapeOneFirst(q, result_type, gathered, entries) ==
    IF result_type = SINGLE
    THEN IF entries # <<>> THEN RetRow(Row(Head(entries), gathered.fields))
         ELSE IF gathered.q_aggregates # <<>>
         THEN RetAggregates([i \in 1..Len(gathered.q_aggregates) |->
                               AggregateGet(q, gathered.q_aggregates, i, entries)])
         ELSE RetNone
    ELSE RetChunks(<< [i \in 1..Len(entries) |-> Row(entries[i], gathered.fields)] >>)

\* takes a row of empty values for no result
ShapeEmptyIsNone(q, result_type, gathered, entries) ==
    IF result_type = SINGLE
    THEN IF gathered.q_aggregates # <<>>
         THEN RetAggregates([i \in 1..Len(gathered.q_aggregates) |->
                               AggregateGet(q, gathered.q_aggregates, i, entries)])
         ELSE IF entries # <<>>
                 /\ \E i \in 1..Len(gathered.fields) :
                       Get(Head(entries), gathered.fields[i]) # <<>>
         THEN RetRow(Row(Head(entries), gathered.fields))
         ELSE RetNone
    ELSE RetChunks(<< [i \in 1..Len(entries) |-> Row(entries[i], gathered.fields)] >>)

(* backend/compiler.py: execute_sql, the result of the built query *)
Shape(q, result_type, gathered, entries) ==
    IF result_type = SINGLE
    THEN IF gathered.q_aggregates # <<>>
         THEN RetAggregates([i \in 1..Len(gathered.q_aggregates) |->
                               AggregateGet(q, gathered.q_aggregates, i, entries)])
         ELSE IF entries # <<>> THEN RetRow(Row(Head(entries), gathered.fields))
         ELSE RetNone
    ELSE RetChunks(<< [i \in 1..Len(entries) |-> Row(entries[i], gathered.fields)] >>)

\* what the fetch is: aggregate(), one() or the iteration
FetchCall(result_type, gathered) ==
    IF result_type = SINGLE
    THEN IF gathered.q_aggregates # <<>> THEN "aggregate" ELSE "one"
    ELSE "iterate"

QueryOutcomes == {"ok", "connect_error", "fetch_error"}

\* compiles the filter and the orderings before it opens the connection
ExecuteSqlRunEager(q, result_type, outcome) ==
    IF result_type \notin {SINGLE, MULTI}
    THEN [trace |-> <<>>, exc |-> NoExc, ret |-> RetNone, plan |-> NoPlan]
    ELSE LET gathered == Gather(Gathered, q.select)
             built == BuildQuery(q, gathered)
             search == << <<"search", FetchCall(result_type, gathered)>> >>
         IN  IF gathered.exc # NoExc
             THEN [trace |-> <<>>, exc |-> gathered.exc, ret |-> RetNone,
                   plan |-> NoPlan]
             ELSE IF built.exc # NoExc
             THEN [trace |-> <<>>, exc |-> built.exc, ret |-> RetNone,
                   plan |-> built]
             ELSE IF outcome = "connect_error"
             THEN [trace |-> create_query(<<>>, outcome), exc |-> "ConnectionError",
                   ret |-> RetNone, plan |-> NoPlan]
             ELSE IF outcome = "fetch_error"
             THEN [trace |-> create_query(search, "call_error"),
                   exc |-> "ConnectionError", ret |-> RetNone, plan |-> built]
             ELSE [trace |-> create_query(search, "ok"), exc |-> NoExc,
                   ret |-> Shape(q, result_type, gathered, Fetch(q, built)),
                   plan |-> built]

(* backend/compiler.py: SQLCompiler.execute_sql *)
ExecuteSqlRun(q, result_type, outcome) ==
    IF result_type \notin {SINGLE, MULTI}
    THEN [trace |-> <<>>, exc |-> NoExc, ret |-> RetNone, plan |-> NoPlan]
    ELSE LET gathered == Gather(Gathered, q.select)
             built == BuildQuery(q, gathered)
             search == << <<"search", FetchCall(result_type, gathered)>> >>
         IN  IF gathered.exc # NoExc
             THEN [trace |-> <<>>, exc |-> gathered.exc, ret |-> RetNone,
                   plan |-> NoPlan]
             ELSE IF outcome = "connect_error"
             THEN [trace |-> create_query(<<>>, outcome), exc |-> "ConnectionError",
                   ret |-> RetNone, plan |-> NoPlan]
             ELSE IF built.exc # NoExc
             THEN [trace |-> create_query(<<>>, "call_error"), exc |-> built.exc,
                   ret |-> RetNone, plan |-> built]
             ELSE IF outcome = "fetch_error"
             THEN [trace |-> create_query(search, "call_error"),
                   exc |-> "ConnectionError", ret |-> RetNone, plan |-> built]
             ELSE [trace |-> create_query(search, "ok"), exc |-> NoExc,
                   ret |-> Shape(q, result_type, gathered, Fetch(q, built)),
                   plan |-> built]

ExecuteSql(result_type, outcome) ==
    LET run == ExecuteSqlRun(query, result_type, outcome)
    IN  /\ op' = OpRecord("execute_sql", result_type)
        /\ trace' = run.trace
        /\ result' = [exc |-> run.exc, ret |-> run.ret]
        /\ plan' = run.plan
        /\ UNCHANGED <<entityVars, query>>

(* backend/compiler.py: SQLCompiler.has_results *)
HasResults(outcome) ==
    LET run == ExecuteSqlRun(query, SINGLE, outcome)
    IN  /\ op' = OpRecord("has_results", None)
        /\ trace' = run.trace
        /\ result' = [exc |-> run.exc,
                      ret |-> IF run.exc = NoExc THEN RetBool(run.ret # RetNone)
                              ELSE RetNone]
        /\ plan' = run.plan
        /\ UNCHANGED <<entityVars, query>>

(* backend/compiler.py: SQLInsertCompiler / SQLUpdateCompiler /           *)
(* SQLDeleteCompiler .execute_sql                                         *)
\* returns without raising
BulkRunSilent(what) ==
    [trace |-> <<>>, exc |-> NoExc]

BulkRun(what) ==
    [trace |-> <<>>,
     exc |-> "NotImplementedError: Bulk " \o what \o " is not supported for LDAP"]

BulkExecuteSql(what) ==
    LET run == BulkRun(what)
    IN  /\ op' = OpRecord("bulk_" \o what, None)
        /\ trace' = run.trace
        /\ result' = [exc |-> run.exc, ret |-> RetNone]
        /\ plan' = NoPlan
        /\ UNCHANGED <<entityVars, query>>

----------------------------------------------------------------------------
(* models.py: ScalarFieldMixin.to_python on the value sequence of an      *)
(* attribute: the first element, None if there is none                    *)
to_python(value) == IF value = <<>> THEN None ELSE Head(value)

\* the select of a query set of the model: its concrete fields
ModelSelect ==
    << Selected(Col("name", "cn"), None), Selected(Col("email", "mail"), None) >>

RetDeleted(n) == [kind |-> "deleted", value |-> n]

RECURSIVE Flatten(_)
Flatten(seqs) == IF seqs = <<>> THEN <<>> ELSE Head(seqs) \o Flatten(Tail(seqs))

(* models.py: LDAPQuerySet.delete, the loop over the instances of the     *)
(* rows: instance.delete() on each until one raises.  The failAt-th       *)
(* delete has outcome `kind`, the others succeed.                         *)
DeleteEach(rows, failAt, kind) ==
    LET fails == failAt \in 1..Len(rows)
        attempted == IF fails THEN failAt ELSE Len(rows)
        runs == [i \in 1..attempted |->
                   DeleteRun(FALSE, to_python(rows[i][1]),
                             IF i = failAt THEN kind ELSE "ok")]
    IN  [trace |-> Flatten([i \in 1..attempted |-> runs[i].trace]),
         exc |-> IF fails THEN OutcomeExc(kind) ELSE NoExc,
         deleted |-> IF fails THEN failAt - 1 ELSE Len(rows)]

(* models.py: LDAPQuerySet.delete *)
QuerySetDeleteRun(fetched, failAt, kind) ==
    IF fetched.exc # NoExc
    THEN [trace |-> fetched.trace, exc |-> fetched.exc, deleted |-> 0]
    ELSE [DeleteEach(fetched.ret.value[1], failAt, kind)
            EXCEPT !.trace = fetched.trace \o @]

\* `for instance in self` runs the query in MULTI mode
QuerySetDelete(outcome, failAt, kind) ==
    /\ query.select = ModelSelect
    /\ failAt <= Len(query.entries)
    /\ (failAt = 0 => kind = "call_error")
    /\ \E fetched \in { ExecuteSqlRun(query, MULTI, outcome) } :
       \E run \in { QuerySetDeleteRun(fetched, failAt, kind) } :
          /\ op' = OpRecord("queryset_delete", None)
          /\ trace' = run.trace
          /\ result' = [exc |-> run.exc,
                        ret |-> IF run.exc = NoExc THEN RetDeleted(run.deleted)
                                ELSE RetNone]
          /\ plan' = fetched.plan
    /\ UNCHANGED <<entityVars, query>>

----------------------------------------------------------------------------
(* The queries and directory answers the model runs *)

MaxMark == 1
MaxEntries == 2

Alice == [cn |-> <<"alice">>, mail |-> <<"alice@example", "a@example">>]
Bob == [cn |-> <<"bob">>]

RECURSIVE SeqsUpTo(_, _)
SeqsUpTo(S, n) ==
    IF n = 0 THEN { <<>> }
    ELSE SeqsUpTo(S, n - 1)
         \cup { Append(s, x) : s \in { t \in SeqsUpTo(S, n - 1) : Len(t) = n - 1 },
                               x \in S }

Selects ==
    { ModelSelect,
      <<>>,
      << Selected(Col("email", "mail"), None) >>,
      << Selected(Aggregate("Count", <<Star>>, TRUE), "n") >>,
      << Selected(Aggregate("Max", << Col("uidnumber", "uidNumber") >>, TRUE), None),
         Selected(Aggregate("Count", <<Star>>, TRUE), "n") >>,
      << Selected(Col("name", "cn"), None),
         Selected(Aggregate("Count", << Col("email", "mail") >>, FALSE), "n_mail") >>,
      << Selected(Aggregate("Max", << Ref("n_mail") >>, TRUE), None) >>,
      << Selected(Aggregate("Max", << Col("name", "cn"), Col("email", "mail") >>, TRUE),
                  "m") >>,
      << Selected(Col("name", "cn"), None),
         Selected(Aggregate("StdDev", << Col("uidnumber", "uidNumber") >>, TRUE), "s") >>,
      << Selected(Value, "v") >> }

Wheres ==
    { NoWhere,
      WhereNode(<< Lookup(Col("username", "uid"), "exact", "alice"),
                   WhereNode(<< Lookup(Col("email", "mail"), "icontains", "example") >>,
                             AND, TRUE) >>, AND, FALSE),
      WhereNode(<< Lookup(Ref("n_mail"), "exact", "2") >>, AND, FALSE),
      WhereNode(<< Lookup(Col("username", "uid"), "exact", "alice"),
                   Lookup(Col("email", "mail"), "icontains", "example") >>,
                "XOR", FALSE),
      WhereNode(<< Lookup(Col("username", "uid"), "exact", "alice"), NothingNode >>,
                OR, TRUE) }

OrderBys ==
    { <<>>,
      << OrderBy(Ref("n_mail"), FALSE), OrderBy(Col("name", "cn"), TRUE) >>,
      << OrderBy(Col("name", "cn"), FALSE), OrderBy(Value, FALSE) >> }

\* the rest of the description, and whether aggregate() lacks computed keys
Settings ==
    { [distinct |-> FALSE, search_classes |-> RetNone, agg_absent |-> FALSE],
      [distinct |-> TRUE, search_classes |-> RetList(<<"posixAccount">>),
       agg_absent |-> TRUE] }

\* low_mark and high_mark: Django keeps low_mark <= high_mark
Marks ==
    { m \in (0..MaxMark) \X ({NoneMark} \cup (0..MaxMark)) :
        m[2] = NoneMark \/ m[2] >= m[1] }

MakeQuery(s, w, o, m, f, e) ==
    [select |-> s, where |-> w, order_by |-> o,
     low_mark |-> m[1], high_mark |-> m[2],
     distinct |-> f.distinct, search_classes |-> f.search_classes,
     object_classes |-> <<"top", "person">>,
     agg_absent |-> f.agg_absent, entries |-> e]

Queries ==
    { MakeQuery(s, w, o, m, f, e) :
        s \in Selects, w \in Wheres, o \in OrderBys, m \in Marks, f \in Settings,
        e \in SeqsUpTo({Alice, Bob}, MaxEntries) }

----------------------------------------------------------------------------
(* The entity: constructed by the caller (adding) or loaded by a query.   *)
(* A loaded entity was stored under the DN of its cn.                     *)

InitEntity ==
    /\ adding \in BOOLEAN
    /\ cn \in CnValues
    /\ raw_password = None
    /\ storedDn = IF adding THEN None ELSE BuildDn(cn)

InitCall ==
    /\ op = [name |-> "init", arg |-> None, adding |-> adding, cn |-> cn,
             raw_password |-> raw_password, storedDn |-> storedDn,
             afterSave |-> FALSE]
    /\ trace = <<>>
    /\ result = [exc |-> NoExc, ret |-> RetNone]
    /\ plan = NoPlan

NextEntity ==
    \/ \E valid \in BOOLEAN, main \in Outcomes, pw \in Outcomes : Save(valid, main, pw)
    \/ \E outcome \in Outcomes : Delete(outcome)
    \/ \E candidate \in Passwords, outcome \in BindOutcomes :
          CheckPassword(candidate, outcome)
    \/ \E password \in Passwords : SetPassword(password)
    \/ \E value \in CnValues : SetCn(value)

NextQuery ==
    \/ \E result_type \in {SINGLE, MULTI, CURSOR}, outcome \in QueryOutcomes :
          ExecuteSql(result_type, outcome)
    \/ \E outcome \in QueryOutcomes : HasResults(outcome)
    \/ \E what \in {"insert", "update", "delete"} : BulkExecuteSql(what)
    \/ \E outcome \in QueryOutcomes, failAt \in 0..MaxEntries,
          kind \in {"connect_error", "call_error"} :
          QuerySetDelete(outcome, failAt, kind)

vars == <<adding, cn, raw_password, storedDn, query, plan, op, trace, result>>

----------------------------------------------------------------------------
(* Spec: one entity and one query set of its model, any operation on      *)
(* either, in any order.  The query is one of a few that between them     *)
(* take every path of execute_sql.                                        *)

Plain == [distinct |-> FALSE, search_classes |-> RetNone, agg_absent |-> FALSE]

Samples ==
    { MakeQuery(ModelSelect, NoWhere, <<>>, <<0, NoneMark>>, Plain, <<Alice, Bob>>),
      MakeQuery(ModelSelect,
                WhereNode(<< Lookup(Ref("n_mail"), "exact", "2") >>, AND, FALSE),
                <<>>, <<0, NoneMark>>, Plain, <<Alice>>),
      MakeQuery(ModelSelect, NoWhere, << OrderBy(Value, FALSE) >>, <<0, NoneMark>>,
                Plain, <<Bob>>),
      MakeQuery(<< Selected(Aggregate("Count", <<Star>>, TRUE), "n") >>, NoWhere,
                <<>>, <<0, NoneMark>>, Plain, <<Alice, Bob>>),
      MakeQuery(<< Selected(Value, "v") >>, NoWhere, <<>>, <<0, NoneMark>>, Plain,
                <<Alice>>) }

Init ==
    /\ InitEntity
    /\ query \in Samples
    /\ InitCall

Next == NextEntity \/ NextQuery

Spec == Init /\ [][Next]_vars

----------------------------------------------------------------------------
(* SpecQuery: every query of Queries, on an entity that plays no part.   *)
(* A compiler is made for one query and executed once; the operations    *)
(* keep nothing from one execution to the next.                          *)

InitQuery ==
    /\ adding = TRUE
    /\ cn = "alice"
    /\ raw_password = None
    /\ storedDn = None
    /\ query \in Queries
    /\ InitCall

Unused == op.name = "init"

NextQueryOnce ==
    \/ Unused /\ \E result_type \in {SINGLE, MULTI, CURSOR}, outcome \in QueryOutcomes :
                    ExecuteSql(result_type, outcome)
    \/ Unused /\ \E outcome \in QueryOutcomes : HasResults(outcome)
    \/ Unused /\ \E what \in {"insert", "update", "delete"} : BulkExecuteSql(what)
    \/ Unused /\ \E outcome \in QueryOutcomes, failAt \in 0..MaxEntries,
                    kind \in {"connect_error", "call_error"} :
                    QuerySetDelete(outcome, failAt, kind)

SpecQuery == InitQuery /\ [][NextQueryOnce]_vars

----------------------------------------------------------------------------
(* SpecCompile: _compile on every where tree of at most MaxNodes nodes *)

CompileWhere ==
    /\ op.name = "init"
    /\ op' = OpRecord("_compile", None)
    /\ result' = _compile(query.where)
    /\ trace' = <<>>
    /\ UNCHANGED <<entityVars, queryVars>>

InitCompile ==
    /\ adding = TRUE
    /\ cn = "alice"
    /\ raw_password = None
    /\ storedDn = None
    /\ query \in { [where |-> t] : t \in TreesUpTo(MaxNodes) }
    /\ InitCall

NextCompile == CompileWhere

SpecCompile == InitCompile /\ [][NextCompile]_vars

----------------------------------------------------------------------------
(* Reading the trace of the last operation *)

Event(i) == trace[i][1]
Events(names) == { i \in 1..Len(trace) : Event(i) \in names }
ExecuteOps == {"execute_sql", "has_results", "queryset_delete"}

\* the rejections execute_sql raises for a query it cannot translate
ProjectionRejections == { Unsupported }
FilterRejections ==
    { "TypeError: Filtering on annotations is not supported",
      "TypeError: Unsupported connector",
      "TypeError: Unsupported node" }
OrderingRejections == { "NotImplementedError: Unsupported expression" }

----------------------------------------------------------------------------
\* C1: whenever an operation has finished, by returning or by raising, every
\* connection it opened has been closed: each open event of its trace is
\* followed by a close event before any other connection is opened, and every
\* directory call lies between an open and its close.
C1_ConnectionsClosed ==
    /\ \A i \in Events({"open"}) :
          \E j \in Events({"close"}) :
             /\ j > i
             /\ \A k \in (i + 1)..(j - 1) : Event(k) \notin {"open", "close"}
    /\ \A c \in Events({"search", "create_entry", "update_entry", "delete_entry",
                        "set_entry_password"}) :
          /\ \E i \in Events({"open"}) :
                i < c /\ \A k \in (i + 1)..c : Event(k) # "close"
          /\ \E j \in Events({"close"}) : j > c

\* an execute_sql whose filter compilation raised inside the query scope
C1_Witness ==
    /\ op.name = "execute_sql"
    /\ result.exc \in FilterRejections
    /\ Events({"open"}) # {}

----------------------------------------------------------------------------
\* C2 as claimed: when execute_sql raises a compile-time rejection, no
\* connection has been opened.
C2_RejectedBeforeConnecting ==
    (/\ op.name \in ExecuteOps
     /\ result.exc \in ProjectionRejections \cup FilterRejections
                       \cup OrderingRejections)
    => Events({"open"}) = {}

\* C2 amended: a projection or aggregate rejection is raised before any
\* connection is opened; a filter or ordering rejection is raised inside the
\* query scope: the connection has been opened, no search has been issued, and
\* the connection is closed before the error reaches the caller.
C2_RejectedBeforeSearching ==
    op.name \in ExecuteOps =>
        /\ result.exc \in ProjectionRejections => trace = <<>>
        /\ result.exc \in FilterRejections \cup OrderingRejections =>
              trace = << <<"open", "ro">>, <<"close">> >>

C2_Witness ==
    /\ op.name = "execute_sql"
    /\ result.exc \in OrderingRejections
    /\ trace # <<>>

----------------------------------------------------------------------------
MainWrites == Events({"create_entry", "update_entry"})
PasswordSets == Events({"set_entry_password"})
SavedDn == BuildDn(op.cn)

\* C3 as claimed: a successful save of a persisted entity whose DN changed
\* since it was loaded or last saved issues rename_entry(old DN, new DN)
\* before its update_entry.
C3_RenameBeforeUpdate ==
    (/\ op.name = "save"
     /\ result.exc = NoExc
     /\ ~op.adding
     /\ op.storedDn # SavedDn)
    => \E r \in Events({"rename_entry"}), u \in Events({"update_entry"}) :
          /\ r < u
          /\ trace[r] = <<"rename_entry", op.storedDn, SavedDn>>

----------------------------------------------------------------------------
\* C4 as claimed: a save that gets to its write issues create_entry exactly
\* when the entity was never persisted and update_entry otherwise; a save that
\* succeeds returns that flag and leaves the entity persisted.
C4_ReturnsCreated ==
    op.name = "save" =>
        /\ \A w \in MainWrites : Event(w) = "create_entry" <=> op.adding
        /\ result.exc = NoExc =>
              /\ Cardinality(MainWrites) = 1
              /\ result.ret = RetBool(op.adding)
              /\ ~adding

\* C4 amended: the same, but save returns None: whether it was a create is
\* told only by the created flag of the post_save signal, the last thing a
\* successful save does.
C4_SignalsCreated ==
    op.name = "save" =>
        /\ \A w \in MainWrites : Event(w) = "create_entry" <=> op.adding
        /\ result.ret = RetNone
        /\ result.exc = NoExc =>
              /\ Cardinality(MainWrites) = 1
              /\ trace[Len(trace)] = <<"signal", "post_save", PyBool(op.adding)>>
              /\ ~adding

\* a successful save of an entity that was never persisted
C4_Witness ==
    /\ op.name = "save"
    /\ result.exc = NoExc
    /\ op.adding
    /\ Events({"create_entry"}) # {}

----------------------------------------------------------------------------
----------------------------------------------------------------------------
\* C6: check_password on an entity never saved returns False and binds
\* nothing; on a persisted entity it makes one bind with the entity's DN and
\* the candidate, returns True when the bind succeeds, False when it fails
\* with AuthenticationError, and raises when it fails otherwise.
C6_CheckPassword ==
    op.name = "check_password" =>
        IF op.adding
        THEN trace = <<>> /\ result = [exc |-> NoExc, ret |-> RetBool(FALSE)]
        ELSE /\ Events({"bind"}) = {1}
             /\ trace[1][2] = SavedDn
             /\ trace[1][3] = op.arg
             /\ trace[1][4] = "bound" =>
                   result = [exc |-> NoExc, ret |-> RetBool(TRUE)]
             /\ trace[1][4] = "AuthenticationError" =>
                   result = [exc |-> NoExc, ret |-> RetBool(FALSE)]
             /\ trace[1][4] \notin {"bound", "AuthenticationError"} =>
                   result.exc = trace[1][4]

\* a bind that failed for another reason than the credentials
C6_Witness ==
    /\ op.name = "check_password"
    /\ ~op.adding
    /\ result.exc = "ConnectionError"

----------------------------------------------------------------------------
BulkOps == {"bulk_insert", "bulk_update", "bulk_delete"}
BulkErrors ==
    { "NotImplementedError: Bulk " \o what \o " is not supported for LDAP" :
        what \in {"insert", "update", "delete"} }
Matched == Fetch(query, plan)

\* C7 as claimed: a bulk insert, update or delete, and a delete on a query
\* set, raise the bulk-not-supported error and issue nothing to the
\* directory.
C7_BulkAndQuerySetDeleteRejected ==
    op.name \in BulkOps \cup {"queryset_delete"} =>
        /\ result.exc \in BulkErrors
        /\ trace = <<>>

\* C7 amended: the bulk insert, update and delete compilers raise
\* NotImplementedError and issue nothing; a delete on a query set never
\* raises that error: it runs the query and issues one delete_entry per entry
\* the query yields, in their order, and returns how many it deleted.
C7_BulkRejectedQuerySetDeletedOneByOne ==
    /\ \A what \in {"insert", "update", "delete"} :
          op.name = "bulk_" \o what =>
             /\ result.exc = "NotImplementedError: Bulk " \o what
                                \o " is not supported for LDAP"
             /\ trace = <<>>
    /\ op.name = "queryset_delete" =>
          /\ result.exc \notin BulkErrors
          /\ result.exc = NoExc =>
                /\ Cardinality(Events({"search"})) = 1
                /\ result.ret = RetDeleted(Len(Matched))
                /\ Cardinality(Events({"delete_entry"})) = Len(Matched)
                /\ \A i \in 1..Len(Matched) :
                      \E d \in Events({"delete_entry"}) :
                         /\ trace[d] = <<"delete_entry", BuildDn(Head(Matched[i].cn))>>
                         /\ Cardinality({ e \in Events({"delete_entry"}) : e < d }) = i - 1
                         /\ \A q \in Events({"search"}) : q < d

\* a query set of two entries deleted entry by entry
C7_Witness ==
    /\ op.name = "queryset_delete"
    /\ result.exc = NoExc
    /\ Cardinality(Events({"delete_entry"})) = 2

----------------------------------------------------------------------------
\* the negated nodes of a where tree, the NOT wrappers of a compiled filter
RECURSIVE Negations(_), NegationsIn(_), Wrappers(_), WrappersIn(_)
Negations(t) ==
    IF t.type = "WhereNode"
    THEN (IF t.negated THEN 1 ELSE 0) + NegationsIn(t.children)
    ELSE 0
NegationsIn(ts) ==
    IF ts = <<>> THEN 0 ELSE Negations(Head(ts)) + NegationsIn(Tail(ts))
Wrappers(f) ==
    IF f.type = "NotNode" THEN 1 + Wrappers(f.child)
    ELSE IF f.type \in {"AndNode", "OrNode"} THEN WrappersIn(f.children)
    ELSE 0
WrappersIn(fs) ==
    IF fs = <<>> THEN 0 ELSE Wrappers(Head(fs)) + WrappersIn(Tail(fs))

\* the comparisons of a where tree and the atoms of a compiled filter, left
\* to right
RECURSIVE Comparisons(_), ComparisonsIn(_), Atoms(_), AtomsIn(_)
Comparisons(t) ==
    IF t.type = "WhereNode" THEN ComparisonsIn(t.children)
    ELSE << <<t.lhs.column, t.lookup_name, t.rhs>> >>
ComparisonsIn(ts) ==
    IF ts = <<>> THEN <<>> ELSE Comparisons(Head(ts)) \o ComparisonsIn(Tail(ts))
Atoms(f) ==
    IF f.type = "NotNode" THEN Atoms(f.child)
    ELSE IF f.type \in {"AndNode", "OrNode"} THEN AtomsIn(f.children)
    ELSE << <<f.column, f.lookup_name, f.value>> >>
AtomsIn(fs) ==
    IF fs = <<>> THEN <<>> ELSE Atoms(Head(fs)) \o AtomsIn(Tail(fs))

\* C8: _compile turns a comparison on a column into one atom (column, lookup
\* name, value); an AND/OR node with one child into what the child compiles
\* to; an AND/OR node with several children into the AndNode/OrNode of the
\* compiled children in their order; and wraps the result of each negated
\* node in exactly one NotNode, so that the filter has as many NotNodes as the
\* tree has negated nodes and NOT(NOT(x)) stays two nested NotNodes.
C8_ReferenceTranslation ==
    op.name = "_compile" =>
        LET t == query.where
            n == IF t.type = "WhereNode" THEN Len(t.children) ELSE 0
            plain == IF t.type = "WhereNode" THEN [t EXCEPT !.negated = FALSE] ELSE t
        IN  /\ (t.type = "Lookup" /\ t.lhs.type = "Col") =>
                  result = Returns(Expression(t.lhs.column, t.lookup_name, t.rhs))
            /\ (t.type = "WhereNode" /\ ~t.negated /\ n = 1) =>
                  result = _compile(t.children[1])
            /\ (t.type = "WhereNode" /\ ~t.negated /\ n > 1 /\ result.exc = NoExc) =>
                  /\ t.connector \in {AND, OR}
                  /\ result.ret.type = (IF t.connector = AND THEN "AndNode" ELSE "OrNode")
                  /\ \A i \in 1..n : _compile(t.children[i]).exc = NoExc
                  /\ result.ret.children = [i \in 1..n |-> _compile(t.children[i]).ret]
            /\ (t.type = "WhereNode" /\ t.negated) =>
                  IF _compile(plain).exc # NoExc THEN result = _compile(plain)
                  ELSE result = Returns(NotNode(_compile(plain).ret))
            /\ result.exc = NoExc =>
                  /\ Wrappers(result.ret) = Negations(t)
                  /\ Atoms(result.ret) = Comparisons(t)

\* NOT(NOT(x)) compiled
C8_Witness ==
    /\ op.name = "_compile"
    /\ query.where.type = "WhereNode"
    /\ query.where.negated
    /\ Len(query.where.children) = 1
    /\ query.where.children[1].type = "WhereNode"
    /\ query.where.children[1].negated
    /\ result.exc = NoExc
    /\ result.ret.type = "NotNode"
    /\ result.ret.child.type = "NotNode"

----------------------------------------------------------------------------
\* what the loop over the select gathered for the query of the state
Resolved == Gather(Gathered, query.select)
HasAggregates == Resolved.q_aggregates # <<>>
Executed(result_type) ==
    /\ op.name = "execute_sql"
    /\ op.arg = result_type
    /\ result.exc = NoExc

\* C9: in SINGLE mode without aggregates execute_sql returns None exactly
\* when the query yields no entry, and otherwise the row of the first entry:
\* one value per requested field, in order, the empty sequence for an
\* attribute the entry lacks, even when all of them are empty.  has_results
\* is true exactly when the SINGLE execution of the query is not None.
C9_SingleNoneIffNoEntry ==
    /\ (Executed(SINGLE) /\ ~HasAggregates) =>
          /\ result.ret = RetNone <=> Matched = <<>>
          /\ Matched # <<>> =>
                /\ result.ret.kind = "row"
                /\ Len(result.ret.value) = Len(Resolved.fields)
                /\ \A i \in 1..Len(Resolved.fields) :
                      result.ret.value[i] =
                         IF Resolved.fields[i] \in DOMAIN Matched[1]
                         THEN Matched[1][Resolved.fields[i]] ELSE <<>>
    /\ (op.name = "has_results" /\ result.exc = NoExc) =>
          /\ result.ret = RetBool(ExecuteSqlRun(query, SINGLE, "ok").ret # RetNone)
          /\ ~HasAggregates => result.ret = RetBool(Matched # <<>>)

\* an entry without the one requested attribute: a row of one empty value
C9_Witness ==
    /\ Executed(SINGLE)
    /\ ~HasAggregates
    /\ Matched # <<>>
    /\ result.ret = RetRow(<< <<>> >>)

----------------------------------------------------------------------------
\* the row of aggregate values: one per alias of q_aggregates, in the
\* order the aliases were first declared in the select
AggregateRow ==
    [i \in 1..Len(Resolved.q_aggregates) |->
        AggregateGet(query, Resolved.q_aggregates, i, Matched)]

\* C10 as claimed: whenever an aggregate was resolved, a SINGLE or MULTI
\* execution runs the aggregation and returns the one row of aggregate
\* values, never the rows of the entries.
C10_AggregatesInEveryMode ==
    (op.name = "execute_sql" /\ result.exc = NoExc /\ op.arg \in {SINGLE, MULTI}
        /\ HasAggregates) =>
        /\ trace[2] = <<"search", "aggregate">>
        /\ result.ret = RetAggregates(AggregateRow)

\* C10 amended: a SINGLE execution with aggregates runs the aggregation and
\* returns the one row of aggregate values, whether or not there are
\* entries; a MULTI execution with aggregates does not run the aggregation
\* and returns the rows of the entries.
C10_AggregatesInSingleMode ==
    /\ (Executed(SINGLE) /\ HasAggregates) =>
          /\ trace[2] = <<"search", "aggregate">>
          /\ result.ret = RetAggregates(AggregateRow)
          /\ Len(result.ret.value) = Len(Resolved.q_aggregates)
          /\ query.select = << Selected(Aggregate("Max", << Col("uidnumber", "uidNumber") >>,
                                                  TRUE), None),
                               Selected(Aggregate("Count", <<Star>>, TRUE), "n") >> =>
                /\ Keys(Resolved.q_aggregates) = <<"uidnumber__max", "n">>
                /\ result.ret.value[2] = "Count()=" \o ToString(Len(Matched))
                /\ query.agg_absent => result.ret.value[1] = None
    /\ (Executed(MULTI) /\ HasAggregates) =>
          /\ trace[2] = <<"search", "iterate">>
          /\ result.ret =
                RetChunks(<< [i \in 1..Len(Matched) |-> Row(Matched[i], Resolved.fields)] >>)

\* two aggregates over a query that yields entries, one of them absent from
\* what the directory computed
C10_Witness ==
    /\ Executed(SINGLE)
    /\ Len(Resolved.q_aggregates) = 2
    /\ Matched # <<>>
    /\ result.ret.kind = "aggregates"
    /\ result.ret.value[1] = None

----------------------------------------------------------------------------
\* the query asked for an offset or set a high bound, 0 included
SliceRequested == query.low_mark # 0 \/ query.high_mark # NoneMark

\* entries[low:high] as a half-open range of positions counted from 0
HalfOpen(entries, low, high) ==
    LET positions == { i \in 1..Len(entries) :
                         i - 1 >= low /\ (high = NoneMark \/ i - 1 < high) }
    IN  [k \in 1..Cardinality(positions) |-> entries[low + k]]

\* C11 as claimed: an execution that gets to its fetch slices the query
\* exactly when the query asked for a nonzero offset or set a high bound (0
\* included), then to the half-open range low..high; with offset 0 and no
\* high bound it runs unsliced.
C11_SlicedWhenRequested ==
    (op.name = "execute_sql" /\ op.arg \in {SINGLE, MULTI} /\ result.exc = NoExc) =>
        /\ plan.slice # NoSlice <=> SliceRequested
        /\ SliceRequested =>
              /\ plan.slice = <<query.low_mark, query.high_mark>>
              /\ Matched = HalfOpen(query.entries, query.low_mark, query.high_mark)
        /\ ~SliceRequested => Matched = query.entries

----------------------------------------------------------------------------
\* C12: only set_password changes the staged password: save leaves it as it
\* was, whether it wrote it or not, and so does every other operation.  A
\* successful save with a non-empty staged password therefore issues
\* set_entry_password with the password staged last, the second and every
\* later save after the set_password as well as the first.
C12_StagedPasswordKept ==
    /\ op.name = "set_password" => raw_password = op.arg
    /\ op.name # "set_password" => raw_password = op.raw_password
    /\ (op.name = "save" /\ result.exc = NoExc /\ Truthy(raw_password)) =>
          \E p \in PasswordSets :
             trace[p] = <<"set_entry_password", SavedDn, raw_password>>
    /\ (op.name = "save" /\ result.exc = NoExc /\ op.afterSave
          /\ Truthy(op.raw_password)) =>
          Cardinality(PasswordSets) = 1

\* a successful save that follows a successful save of the same staged
\* password, and writes it again
C12_Witness ==
    /\ op.name = "save"
    /\ result.exc = NoExc
    /\ op.afterSave
    /\ op.raw_password = "pw2"
    /\ trace[Len(trace) - 2] = <<"set_entry_password", SavedDn, "pw2">>

----------------------------------------------------------------------------
PostSaves == { i \in Events({"signal"}) : trace[i][2] = "post_save" }

\* C13: a save whose validation fails raises the validation error and issues
\* nothing at all.  A save whose create_entry or update_entry raises, or
\* cannot connect, raises that error, leaves the adding flag as it was, and
\* issues neither set_entry_password nor the post_save signal; if the call
\* itself raised it was the only directory call of the save.
C13_FailedSaveStops ==
    op.name = "save" =>
        /\ ~op.arg.valid =>
              /\ result.exc = "ValidationError"
              /\ trace = <<>>
              /\ adding = op.adding
        /\ (op.arg.valid /\ op.arg.main # "ok") =>
              /\ result.exc = OutcomeExc(op.arg.main)
              /\ result.exc # NoExc
              /\ adding = op.adding
              /\ PasswordSets = {}
              /\ PostSaves = {}
              /\ Cardinality(MainWrites) = (IF op.arg.main = "call_error" THEN 1 ELSE 0)
        /\ result.exc = NoExc => PostSaves = { Len(trace) }

\* the create of a new entity raised while a password was staged
C13_Witness ==
    /\ op.name = "save"
    /\ op.arg.main = "call_error"
    /\ op.adding
    /\ adding
    /\ op.raw_password = "pw1"
    /\ Events({"create_entry"}) # {}
    /\ result.exc = "ConnectionError"

====
